---- MODULE Spec2Model ----
(***************************************************************************)
(* Liveness analysis of one straight-line block (src/src/x86.rs).          *)
(* Operands and instructions are tagged tuples; HashSet is a set, Vec a    *)
(* sequence.  Block::liveness is unfolded into its reverse loop (one       *)
(* action per iteration) followed by the in-place reverse and return.      *)
(***************************************************************************)
EXTENDS Integers, Sequences, FiniteSets

VARIABLES block, idx, after, liveness, pc

vars == <<block, idx, after, liveness, pc>>

----------------------------------------------------------------------------
(* Bounds of the explored inputs *)

MaxLen == 3        \* longest block over the scan universe
MaxShort == 1      \* longest block over the full instruction table
MaxArity == 7      \* largest call arity explored below the u8 maximum

----------------------------------------------------------------------------
(* Data model *)

U8Max == 255

Registers ==
  {"RSP", "RBP", "RAX", "RBX", "RCX", "RDX", "RSI", "RDI",
   "R8", "R9", "R10", "R11", "R12", "R13", "R14", "R15"}

CALLER_SAVED == <<"RAX", "RCX", "RDX", "RSI", "RDI", "R8", "R9", "R10", "R11">>

CALLEE_SAVED == <<"RSP", "RBP", "RBX", "R12", "R13", "R14", "R15">>

MutARGUMENT_PASSING == <<"RSI", "RDI", "RDX", "RCX", "R8", "R9">>

ARGUMENT_PASSING == <<"RDI", "RSI", "RDX", "RCX", "R8", "R9">>

Reg(r) == <<"Reg", r>>

Mem(r, off) == <<"Mem", r, off>>

Var(name) == <<"Var", name>>

Imm(v) == <<"Imm", v>>

MutCanLive(o) == TRUE

can_live(o) == o[1] \in {"Reg", "Mem", "Var"}

AddQ(src, dst) == <<"AddQ", src, dst>>

SubQ(src, dst) == <<"SubQ", src, dst>>

NegQ(dst) == <<"NegQ", dst>>

MovQ(src, dst) == <<"MovQ", src, dst>>

PushQ(o) == <<"PushQ", o>>

PopQ(o) == <<"PopQ", o>>

CallQ(label, arity) == <<"CallQ", label, arity>>

Jmp(label) == <<"Jmp", label>>

Syscall == <<"Syscall">>

RetQ == <<"RetQ">>

----------------------------------------------------------------------------
(* Iterator adaptors used by uses/defs *)

Min(a, b) == IF a <= b THEN a ELSE b

\* iter().take(n): the first n elements, or all of them when there are fewer
Take(s, n) == SubSeq(s, 1, Min(n, Len(s)))

\* set.extend(iter.map(Operand::Reg))
RegSet(s) == {Reg(s[k]) : k \in 1..Len(s)}

----------------------------------------------------------------------------
(* Instr::uses and Instr::defs *)

MutUses(instr) ==
  CASE instr[1] \in {"AddQ", "SubQ", "MovQ"} ->
         (IF can_live(instr[2]) THEN {instr[2]} ELSE {})
           \cup (IF can_live(instr[3]) THEN {instr[3]} ELSE {})
    [] instr[1] = "NegQ" /\ can_live(instr[2]) -> {instr[2]}
    [] instr[1] = "CallQ" -> RegSet(Take(ARGUMENT_PASSING, instr[3]))
    [] OTHER -> {}

Uses(instr) ==
  CASE instr[1] \in {"AddQ", "SubQ"} ->
         (IF can_live(instr[2]) THEN {instr[2]} ELSE {})
           \cup (IF can_live(instr[3]) THEN {instr[3]} ELSE {})
    [] instr[1] = "NegQ" /\ can_live(instr[2]) -> {instr[2]}
    [] instr[1] = "MovQ" /\ can_live(instr[2]) -> {instr[2]}
    [] instr[1] = "CallQ" -> RegSet(Take(ARGUMENT_PASSING, instr[3]))
    [] OTHER -> {}

\* the destination operand of the shapes that have one
Dst(instr) == IF instr[1] = "NegQ" THEN instr[2] ELSE instr[3]

MutDefs(instr) ==
  CASE instr[1] \in {"AddQ", "SubQ", "NegQ", "MovQ", "PopQ"}
         /\ can_live(IF instr[1] \in {"NegQ", "PopQ"} THEN instr[2] ELSE instr[3]) ->
         {IF instr[1] \in {"NegQ", "PopQ"} THEN instr[2] ELSE instr[3]}
    [] instr[1] = "CallQ" -> RegSet(CALLER_SAVED)
    [] OTHER -> {}

Defs(instr) ==
  CASE instr[1] \in {"AddQ", "SubQ", "NegQ", "MovQ"} /\ can_live(Dst(instr)) ->
         {Dst(instr)}
    [] instr[1] = "CallQ" -> RegSet(CALLER_SAVED)
    [] OTHER -> {}

----------------------------------------------------------------------------
(* Block::liveness *)

MutLiveBeforeKillsUses(instr, live) == (Uses(instr) \cup live) \ Defs(instr)

MutLiveBeforeNoKill(instr, live) == Uses(instr) \cup live

\* instr.uses().union(&after.difference(&instr.defs()))
LiveBefore(instr, live) == Uses(instr) \cup (live \ Defs(instr))

MutReverse(s) == s

Reverse(s) == [k \in 1..Len(s) |-> s[Len(s) + 1 - k]]

Record(instr, before, aft) == [instr |-> instr, before |-> before, after |-> aft]

----------------------------------------------------------------------------
(* Inputs *)

SeqsUpTo(S, n) == UNION {[1..k -> S] : k \in 0..n}

ScanOperands == {Var("x"), Reg("RSI"), Imm(32)}

ScanInstrs ==
  {MovQ(s, d) : s \in ScanOperands, d \in ScanOperands}
    \cup {AddQ(s, d) : s \in ScanOperands, d \in ScanOperands}
    \cup {NegQ(d) : d \in ScanOperands}
    \cup {CallQ("f", 1), CallQ("f", 2), PopQ(Var("x")), RetQ}

TableOperands ==
  {Reg("RDI"), Reg("RAX"), Reg("RBX"), Mem("RBP", -8), Var("x"), Var("y"),
   Imm(32), Imm(10)}

Labels == {"f", "g"}

Arities == (0..MaxArity) \cup {U8Max}

TableInstrs ==
  {AddQ(s, d) : s \in TableOperands, d \in TableOperands}
    \cup {SubQ(s, d) : s \in TableOperands, d \in TableOperands}
    \cup {MovQ(s, d) : s \in TableOperands, d \in TableOperands}
    \cup {NegQ(d) : d \in TableOperands}
    \cup {PushQ(d) : d \in TableOperands}
    \cup {PopQ(d) : d \in TableOperands}
    \cup {CallQ(l, a) : l \in Labels, a \in Arities}
    \cup {Jmp(l) : l \in Labels}
    \cup {Syscall, RetQ}

\* the block of tests::test_liveness
ExampleBlock ==
  << MovQ(Imm(32), Var("x")),
     MovQ(Imm(10), Var("y")),
     MovQ(Var("x"), Var("z")),
     AddQ(Var("y"), Var("z")),
     NegQ(Var("z")) >>

Blocks == SeqsUpTo(ScanInstrs, MaxLen) \cup SeqsUpTo(TableInstrs, MaxShort)
            \cup {ExampleBlock}

----------------------------------------------------------------------------
(* The state machine *)

Init ==
  /\ block \in Blocks
  /\ idx = Len(block)
  /\ after = {}
  /\ liveness = <<>>
  /\ pc = "loop"

MutLoopStepRecordsBefore ==
  /\ pc = "loop"
  /\ idx > 0
  /\ LET instr == block[idx]
         before == LiveBefore(instr, after)
     IN /\ liveness' = Append(liveness, Record(instr, before, before))
        /\ after' = before
  /\ idx' = idx - 1
  /\ UNCHANGED <<block, pc>>

MutLoopStepKeepsAfter ==
  /\ pc = "loop"
  /\ idx > 0
  /\ LET instr == block[idx]
         before == LiveBefore(instr, after)
     IN /\ liveness' = Append(liveness, Record(instr, before, after))
        /\ after' = after
  /\ idx' = idx - 1
  /\ UNCHANGED <<block, pc>>

\* one iteration of `for instr in self.0.iter().rev()`
LoopStep ==
  /\ pc = "loop"
  /\ idx > 0
  /\ LET instr == block[idx]
         before == LiveBefore(instr, after)
     IN /\ liveness' = Append(liveness, Record(instr, before, after))
        /\ after' = before
  /\ idx' = idx - 1
  /\ UNCHANGED <<block, pc>>

\* the iterator is exhausted: liveness.reverse(); return liveness
Finish ==
  /\ pc = "loop"
  /\ idx = 0
  /\ liveness' = Reverse(liveness)
  /\ pc' = "done"
  /\ UNCHANGED <<block, idx, after>>

Next == LoopStep \/ Finish

Spec == Init /\ [][Next]_vars

----------------------------------------------------------------------------
(* Vocabulary of the properties *)

Done == pc = "done"

N == Len(block)

IsCall(instr) == instr[1] = "CallQ"

AllOperands ==
  ScanOperands \cup TableOperands \cup {Reg(r) : r \in Registers}
    \cup {Var("x"), Var("y"), Var("z"), Imm(32), Imm(10)}
    \cup UNION {liveness[i].before \cup liveness[i].after : i \in 1..Len(liveness)}

\* o is read at some position j > i and not overwritten strictly between
ReadLaterAfter(i, o) ==
  \E j \in (i + 1)..N :
     /\ o \in Uses(block[j])
     /\ \A k \in (i + 1)..(j - 1) : o \notin Defs(block[k])

\* o is read at some position j >= i and not overwritten at i..j-1
ReadLaterFrom(i, o) ==
  \E j \in i..N :
     /\ o \in Uses(block[j])
     /\ \A k \in i..(j - 1) : o \notin Defs(block[k])

----------------------------------------------------------------------------
(* C1: in the returned records, live_before(i) is exactly                  *)
(* uses(instr_i) \cup (live_after(i) \ defs(instr_i)); for AddQ(x, x)      *)
(* with x a location, x is in live_before.                                 *)
C1_UseDefConservation ==
  Done =>
    \A i \in 1..Len(liveness) :
       /\ \A o \in AllOperands :
            o \in liveness[i].before <=>
              \/ o \in Uses(block[i])
              \/ o \in liveness[i].after /\ o \notin Defs(block[i])
       /\ (block[i][1] = "AddQ" /\ block[i][2] = block[i][3]
             /\ block[i][2][1] # "Imm")
            => block[i][2] \in liveness[i].before

C1_Witness ==
  /\ Done
  /\ \E i \in 1..Len(liveness) :
       /\ block[i][1] = "AddQ"
       /\ block[i][2] = block[i][3]
       /\ block[i][2] \in liveness[i].after
       /\ block[i][2] \in liveness[i].before

(* C2: o is in live_after(i) iff some later instruction j > i uses o with  *)
(* no def of o strictly between i and j; o is in live_before(i) iff some   *)
(* instruction j >= i uses o with no def of o at positions i..j-1.         *)
C2_ExactLiveness ==
  Done =>
    \A i \in 1..Len(liveness) : \A o \in AllOperands :
       /\ o \in liveness[i].after <=> ReadLaterAfter(i, o)
       /\ o \in liveness[i].before <=> ReadLaterFrom(i, o)

C2_Witness ==
  /\ Done
  /\ \E i \in 1..Len(liveness) : \E o \in AllOperands :
       /\ o \notin liveness[i].after
       /\ \E k \in (i + 1)..N : \E j \in (k + 1)..N :
            /\ o \in Defs(block[k])
            /\ o \notin Uses(block[k])
            /\ o \in Uses(block[j])
            /\ o \in liveness[k].after

(* C3: on the block of test_liveness the result is, in program order,      *)
(* ({}, {x}), ({x}, {x,y}), ({x,y}, {y,z}), ({y,z}, {z}), ({z}, {}), each  *)
(* record carrying the instruction of the same index.                      *)
C3_WorkedExample ==
  (Done /\ block = ExampleBlock) =>
    liveness =
      << Record(ExampleBlock[1], {}, {Var("x")}),
         Record(ExampleBlock[2], {Var("x")}, {Var("x"), Var("y")}),
         Record(ExampleBlock[3], {Var("x"), Var("y")}, {Var("y"), Var("z")}),
         Record(ExampleBlock[4], {Var("y"), Var("z")}, {Var("z")}),
         Record(ExampleBlock[5], {Var("z")}, {}) >>

C3_Witness == Done /\ block = ExampleBlock /\ Len(liveness) = 5

(* C4: a CallQ whose arity exceeds the 6 argument-passing registers is     *)
(* signaled as an error: a block containing one never yields a liveness    *)
(* result.                                                                 *)
C4_FailFast ==
  Done => \A i \in 1..N : ~(IsCall(block[i]) /\ block[i][3] > 6)

(* C5: no Immediate operand is ever a member of a live_before or           *)
(* live_after set (of a record or of the running accumulator); every       *)
(* member satisfies can_live.                                              *)
C5_ImmediateExclusion ==
  \A o \in after \cup
           UNION {liveness[i].before \cup liveness[i].after : i \in 1..Len(liveness)} :
     o[1] # "Imm" /\ o[1] \in {"Reg", "Mem", "Var"}

C5_Witness ==
  /\ Done
  /\ \E i \in 1..N : block[i][1] \in {"AddQ", "SubQ", "MovQ"} /\ block[i][2][1] = "Imm"
  /\ \E i \in 1..N : block[i][1] \in {"AddQ", "SubQ", "MovQ", "NegQ"}
                       /\ block[i][Len(block[i])][1] = "Imm"
  /\ \E i \in 1..N : liveness[i].after # {}

(* C6: the result has the length of the block and record i carries input   *)
(* instruction i; the empty block gives the empty sequence.                *)
C6_LengthAndOrder ==
  Done =>
    /\ Len(liveness) = Len(block)
    /\ \A i \in 1..Len(block) : liveness[i].instr = block[i]
    /\ (block = <<>> => liveness = <<>>)

C6_Witness ==
  /\ Done
  /\ Len(block) >= 3
  /\ block[1] # block[Len(block)]
  /\ liveness[1].instr = block[1]

(* C7: for a non-empty block live_after of the last record is empty; for   *)
(* a single-instruction block live_before of the record is uses(instr).    *)
C7_TerminalEmptiness ==
  (Done /\ block # <<>>) =>
    /\ liveness[Len(liveness)].after = {}
    /\ (Len(block) = 1 => liveness[1].before = Uses(block[1]))

C7_Witness ==
  /\ Done
  /\ Len(block) >= 2
  /\ liveness[Len(liveness)].before # {}
  /\ liveness[Len(liveness)].after = {}

(* C8: for CallQ(label, arity) with arity <= 6, uses is the set of the     *)
(* first arity registers of RDI, RSI, RDX, RCX, R8, R9 and defs is the set *)
(* of the nine caller-saved registers; a caller-saved register is in the   *)
(* call's live_before only if it is one of those argument registers.       *)
C8_ArgOrder == <<"RDI", "RSI", "RDX", "RCX", "R8", "R9">>

C8_CallerSaved == {"RAX", "RCX", "RDX", "RSI", "RDI", "R8", "R9", "R10", "R11"}

C8_CallSemantics ==
  \A i \in 1..N :
     (IsCall(block[i]) /\ block[i][3] <= 6) =>
        /\ Uses(block[i]) = {<<"Reg", C8_ArgOrder[k]>> : k \in 1..block[i][3]}
        /\ Defs(block[i]) = {<<"Reg", r>> : r \in C8_CallerSaved}
        /\ Done =>
             \A r \in C8_CallerSaved :
                <<"Reg", r>> \in liveness[i].before
                  => \E k \in 1..block[i][3] : C8_ArgOrder[k] = r

C8_Witness ==
  /\ Done
  /\ \E i \in 1..N :
       /\ IsCall(block[i])
       /\ block[i][3] \in 1..6
       /\ \E r \in C8_CallerSaved :
            <<"Reg", r>> \in liveness[i].after /\ <<"Reg", r>> \notin liveness[i].before
       /\ \E r \in C8_CallerSaved : <<"Reg", r>> \in liveness[i].before

(* C9: live_after of record i equals live_before of record i+1.            *)
C9_Chaining ==
  Done =>
    \A i \in 1..(Len(liveness) - 1) : liveness[i].after = liveness[i + 1].before

C9_Witness ==
  /\ Done
  /\ Len(liveness) >= 3
  /\ liveness[1].after # {}
  /\ liveness[2].after # liveness[1].after

(* C10: the use/def table of the non-call instructions: AddQ/SubQ use the  *)
(* locations among {src, dst} and define dst; NegQ uses and defines dst;   *)
(* MovQ uses only src and defines dst; PushQ, PopQ, Jmp, Syscall and RetQ  *)
(* use and define nothing, so their live_before equals their live_after.   *)
C10_Loc(S) == {o \in S : o[1] # "Imm"}

C10_UseDefTable ==
  \A i \in 1..N :
     LET ins == block[i] IN
       /\ ins[1] \in {"AddQ", "SubQ"} =>
            /\ Uses(ins) = C10_Loc({ins[2], ins[3]})
            /\ Defs(ins) = C10_Loc({ins[3]})
       /\ ins[1] = "NegQ" =>
            /\ Uses(ins) = C10_Loc({ins[2]})
            /\ Defs(ins) = C10_Loc({ins[2]})
       /\ ins[1] = "MovQ" =>
            /\ Uses(ins) = C10_Loc({ins[2]})
            /\ Defs(ins) = C10_Loc({ins[3]})
            /\ (ins[3] # ins[2] => ins[3] \notin Uses(ins))
       /\ ins[1] \in {"PushQ", "PopQ", "Jmp", "Syscall", "RetQ"} =>
            /\ Uses(ins) = {}
            /\ Defs(ins) = {}
            /\ Done => liveness[i].before = liveness[i].after

C10_Witness ==
  /\ Done
  /\ \E i \in 1..N :
       /\ block[i][1] = "PopQ"
       /\ block[i][2] \in liveness[i].after
  /\ \E i \in 1..N :
       /\ block[i][1] = "MovQ"
       /\ block[i][2][1] # "Imm"
       /\ block[i][3][1] # "Imm"
       /\ block[i][3] # block[i][2]

====
